---- MODULE Spec2Model ----
(***************************************************************************)
(* Currency / CurrencyFraction / CurrencyAmount value types, the currency  *)
(* and fraction registries, and the Elasticsearch client factory of        *)
(* notebooks/helpers (interfaces.py, es_factory.py).                       *)
(*                                                                         *)
(* Strings the code transforms (currency codes, upper()) are sequences of  *)
(* one-character strings; an Optional value is a sequence of length 0 or 1.*)
(* A decimal.Decimal is the record [m, p, e]: its value is m * 10^p with m *)
(* not divisible by 10 (m = 0 has p = e), and e is the Decimal's exponent, *)
(* so its coefficient is |m| * 10^(p - e) and it stores -e fractional      *)
(* digits.  Arithmetic follows the decimal module under its default        *)
(* context: DecimalPrec significant digits, ROUND_HALF_EVEN.               *)
(***************************************************************************)
EXTENDS Integers, Sequences, FiniteSets, TLC

VARIABLES x, last, elasticsearch_url, _client_cache, created, got

vars == <<x, last, elasticsearch_url, _client_cache, created, got>>

(***************************************************************************)
(* Bounds of the model.                                                    *)
(***************************************************************************)
\* largest mantissa |m| of an amount the session keeps
MaxMantissa == 6
\* longest string handed to Currency.from_code
MaxCodeLen == 3

(***************************************************************************)
(* decimal.Decimal under the default context.                              *)
(***************************************************************************)
\* decimal.getcontext().prec of the default context
DecimalPrec == 28

Abs(n) == IF n < 0 THEN -n ELSE n

Sign(n) == IF n < 0 THEN -1 ELSE 1

Min(a, b) == IF a <= b THEN a ELSE b

RECURSIVE Pow10(_)
Pow10(k) == IF k <= 0 THEN 1 ELSE 10 * Pow10(k - 1)

RECURSIVE NumDigits(_)
\* len(str(n)) for n >= 0
NumDigits(n) == IF n < 10 THEN 1 ELSE 1 + NumDigits(n \div 10)

RECURSIVE Norm(_, _, _)
\* the Decimal of value m * 10^p and exponent e, trailing zeros of m moved into p
Norm(m, p, e) ==
    IF m = 0 THEN [m |-> 0, p |-> e, e |-> e]
    ELSE IF m % 10 = 0 THEN Norm(m \div 10, p + 1, e)
    ELSE [m |-> m, p |-> p, e |-> e]

\* Decimal(n) for an int n = m * 10^p: exact, exponent 0
DecimalOfInt(m, p) == Norm(m, p, 0)

\* len(d._int): digits of the coefficient
CoeffDigits(d) == IF d.m = 0 THEN 1 ELSE NumDigits(Abs(d.m)) + (d.p - d.e)

\* numeric equality of two Decimals (Decimal.__eq__ ignores the exponent)
NumEq(a, b) == a.m = b.m /\ (a.m = 0 \/ a.p = b.p)

\* Decimal._fix: round to DecimalPrec significant digits.  A mantissa here has
\* fewer than DecimalPrec digits, so only coefficient zeros are dropped.
Fix(d) ==
    IF CoeffDigits(d) <= DecimalPrec THEN d
    ELSE [d EXCEPT !.e = d.e + (CoeffDigits(d) - DecimalPrec)]

\* round-half-even of |m| / 10^k to an integer (Decimal._round_half_even)
RoundHalfEven(m, k) ==
    IF k <= 0 THEN m
    ELSE IF k > NumDigits(m) THEN 0
    ELSE LET q == m \div Pow10(k)
             r == m % Pow10(k)
         IN  IF 2 * r > Pow10(k) \/ (2 * r = Pow10(k) /\ q % 2 = 1) THEN q + 1 ELSE q

\* Decimal._rescale(exp, ROUND_HALF_EVEN)
Rescale(d, exp) ==
    IF d.m = 0 \/ d.p >= exp THEN Norm(d.m, d.p, exp)
    ELSE Norm(Sign(d.m) * RoundHalfEven(Abs(d.m), exp - d.p), exp, exp)

\* what a call gives: the value it returns (err = "none"), or the exception it
\* raises with the exception's message
Ok(v) == [err |-> "none", val |-> <<v>>, msg |-> <<>>]

Err(e) == [err |-> e, val |-> <<>>, msg |-> <<>>]

IsOk(r) == r.err = "none"

\* Decimal.quantize(q): rescale to q's exponent; InvalidOperation when the result
\* needs more than DecimalPrec digits
Quantize(d, q) ==
    IF d.m # 0 /\ NumDigits(Abs(d.m)) + d.p - q.e > DecimalPrec
    THEN Err("InvalidOperation")
    ELSE LET ans == Rescale(d, q.e)
         IN  IF CoeffDigits(ans) > DecimalPrec THEN Err("InvalidOperation") ELSE Ok(ans)

\* Decimal.__mul__: exact product, exponents added, then _fix
DecMul(a, b) == Fix(Norm(a.m * b.m, a.p + b.p, a.e + b.e))

\* Decimal.__add__: exact sum at the smaller exponent, then _fix
DecAdd(a, b) ==
    LET lo == Min(a.p, b.p)
        e  == Min(a.e, b.e)
    IN  IF a.m = 0 THEN Fix(Norm(b.m, b.p, e))
        ELSE IF b.m = 0 THEN Fix(Norm(a.m, a.p, e))
        ELSE Fix(Norm(a.m * Pow10(a.p - lo) + b.m * Pow10(b.p - lo), lo, e))

DecNeg(a) == [a EXCEPT !.m = -a.m]

\* Decimal.__sub__: self + (-other)
DecSub(a, b) == DecAdd(a, DecNeg(b))

\* the least k with m * 10^k divisible by n (divisors here are of the form 2^i 5^j)
ShiftFor(m, n) == CHOOSE k \in 0..9 : (m * Pow10(k)) % n = 0 /\
                      \A j \in 0..(k - 1) : (m * Pow10(j)) % n # 0

\* the exact quotient a / b as a value [m, p], b nonzero
ExactQuot(a, b) ==
    LET k == ShiftFor(Abs(a.m), Abs(b.m))
        v == Norm(Sign(a.m) * Sign(b.m) * ((Abs(a.m) * Pow10(k)) \div Abs(b.m)),
                  a.p - b.p - k, a.p - b.p - k)
    IN  [m |-> v.m, p |-> v.p]

\* Decimal.__truediv__: 0/0 is InvalidOperation (DivisionUndefined), x/0 is
\* DivisionByZero; an exact quotient keeps the ideal exponent a.e - b.e when it can
DecTruediv(a, b) ==
    IF b.m = 0 THEN (IF a.m = 0 THEN Err("InvalidOperation") ELSE Err("DivisionByZero"))
    ELSE IF a.m = 0 THEN Ok(Norm(0, 0, a.e - b.e))
    ELSE LET v == ExactQuot(a, b)
         IN  Ok(Fix([m |-> v.m, p |-> v.p, e |-> Min(a.e - b.e, v.p)]))

\* Decimal.__floordiv__: the integer part of the quotient (truncated), exponent 0;
\* InvalidOperation (DivisionImpossible) when it has more than DecimalPrec digits
DecFloordiv(a, b) ==
    IF b.m = 0 THEN (IF a.m = 0 THEN Err("InvalidOperation") ELSE Err("DivisionByZero"))
    ELSE IF a.m = 0 THEN Ok(Norm(0, 0, 0))
    ELSE LET v == ExactQuot(a, b)
         IN  IF v.p >= 0
             THEN (IF NumDigits(Abs(v.m)) + v.p > DecimalPrec
                   THEN Err("InvalidOperation")
                   ELSE Ok(Norm(v.m, v.p, 0)))
             ELSE IF -v.p > NumDigits(Abs(v.m)) THEN Ok(Norm(0, 0, 0))
             ELSE Ok(Norm(Sign(v.m) * (Abs(v.m) \div Pow10(-v.p)), 0, 0))

(***************************************************************************)
(* Strings.                                                                *)
(***************************************************************************)
None == <<>>

Some(v) == <<v>>

LowerCase == <<"a", "b", "c", "d", "e", "f", "g", "h", "i", "j", "k", "l", "m",
               "n", "o", "p", "q", "r", "s", "t", "u", "v", "w", "x", "y", "z">>

UpperCase == <<"A", "B", "C", "D", "E", "F", "G", "H", "I", "J", "K", "L", "M",
               "N", "O", "P", "Q", "R", "S", "T", "U", "V", "W", "X", "Y", "Z">>

\* str.upper() on one character
UpperChar(ch) ==
    IF \E i \in 1..Len(LowerCase) : LowerCase[i] = ch
    THEN UpperCase[CHOOSE i \in 1..Len(LowerCase) : LowerCase[i] = ch]
    ELSE ch

\* str.upper()
upper(s) == [i \in 1..Len(s) |-> UpperChar(s[i])]

(***************************************************************************)
(* The registries.                                                         *)
(***************************************************************************)
ethereum_like(code, name) ==
    [code |-> code, precision |-> 18, name |-> name, type |-> "CRYPTO"]

CURRENCIES ==
    (<<"U", "S", "D">> :> [code |-> <<"U", "S", "D">>, precision |-> 8,
                           name |-> "US Dollar", type |-> "FIAT", symbol |-> "$"])
 @@ (<<"E", "U", "R">> :> [code |-> <<"E", "U", "R">>, precision |-> 8,
                           name |-> "Euro", type |-> "FIAT", symbol |-> "U+20AC"])
 @@ (<<"B", "T", "C">> :> [code |-> <<"B", "T", "C">>, precision |-> 8,
                           name |-> "Bitcoin", type |-> "CRYPTO", symbol |-> "U+20BF"])
 @@ (<<"E", "T", "H">> :> ethereum_like(<<"E", "T", "H">>, "Ether"))
 @@ (<<"E", "L", "L", "A">> :> ethereum_like(<<"E", "L", "L", "A">>, "Ellaism Token"))
 @@ (<<"E", "W", "T">> :> ethereum_like(<<"E", "W", "T">>, "Energy Web Token"))
 @@ (<<"P", "O", "A">> :> ethereum_like(<<"P", "O", "A">>, "POA Network Token"))
 @@ (<<"D", "A", "I">> :> ethereum_like(<<"D", "A", "I">>, "Dai Token"))
 @@ (<<"T", "L", "N">> :> ethereum_like(<<"T", "L", "N">>, "Trustlines Network Token"))
 @@ (<<"P", "A", "N">> :> ethereum_like(<<"P", "A", "N">>, "Panvala Token"))
 @@ (<<"L", "I", "N", "K">> :> ethereum_like(<<"L", "I", "N", "K">>, "Link Token"))

FRACTIONS ==
    ("base" :> Norm(1, 0, 0))
 @@ ("wei" :> Norm(1, -18, -18))
 @@ ("gwei" :> Norm(1, -9, -9))
 @@ ("satoshi" :> Norm(1, -8, -8))

CurrencyType == {"CRYPTO", "FIAT"}

(***************************************************************************)
(* Currency.                                                               *)
(***************************************************************************)
\* the root validator without the lookup: the mapping is used as it is
restore_from_code_unexpanded(values) == Ok(values)

\* root_validator(pre=True): a mapping whose only key is "code" is replaced by the
\* registry's entry for that code, looked up as given
restore_from_code(values) ==
    IF DOMAIN values = {"code"}
    THEN (IF values.code \in DOMAIN CURRENCIES
          THEN Ok(CURRENCIES[values.code]) ELSE Err("KeyError"))
    ELSE Ok(values)

\* Currency(**values): the pre root validator, then the fields' validation
\* (symbol is Optional with default None)
Currency(values) ==
    LET r == restore_from_code(values)
    IN  IF ~IsOk(r) THEN r
        ELSE LET v == r.val[1]
             IN  IF {"code", "precision", "name", "type"} \subseteq DOMAIN v
                    /\ v.type \in CurrencyType
                 THEN Ok([code |-> v.code, precision |-> v.precision,
                          name |-> v.name, type |-> v.type,
                          symbol |-> IF "symbol" \in DOMAIN v THEN Some(v.symbol)
                                     ELSE None])
                 ELSE Err("ValidationError")

\* the lookup with the code as given, not upper-cased
from_code_as_given(code) ==
    IF code \in DOMAIN CURRENCIES
    THEN Currency(CURRENCIES[code])
    ELSE Err("KeyError")

\* Currency.from_code
from_code(code) ==
    IF upper(code) \in DOMAIN CURRENCIES
    THEN Currency(CURRENCIES[upper(code)])
    ELSE Err("KeyError")

\* Currency.dict: only the code is emitted
dict(c) == [code |-> c.code]

\* Currency == Currency: BaseModel.__eq__ compares the two dict() results
Currency_eq(a, b) == dict(a) = dict(b)

\* the registry's currencies, each as from_code builds it
Registered == {from_code(k).val[1] : k \in DOMAIN CURRENCIES}

(***************************************************************************)
(* Operands of the arithmetic operators: a Python value with its type.     *)
(* val is the operand as a Decimal for int, float and Decimal operands     *)
(* (Decimal(n) is exact for all three).                                    *)
(***************************************************************************)
IntOp(m, p) == [type |-> "int", val |-> DecimalOfInt(m, p), amt |-> <<>>]

DecOp(m, p, e) == [type |-> "Decimal", val |-> Norm(m, p, e), amt |-> <<>>]

FloatOp(m, p, e) == [type |-> "float", val |-> Norm(m, p, e), amt |-> <<>>]

\* an operand that is no number: a str, a Currency
OtherOp(t) == [type |-> t, val |-> Norm(0, 0, 0), amt |-> <<>>]

\* an operand that is the CurrencyAmount a
AmountOp(a) == [type |-> "CurrencyAmount", val |-> Norm(0, 0, 0), amt |-> <<a>>]

\* Decimal(other) for a numeric operand
ToDecimal(other) == other.val

\* a method returned NotImplemented and the other operand's reflected method is
\* missing or returns NotImplemented too: the operator raises TypeError
NotImplemented == Err("NotImplemented")

Operator(r) ==
    IF r.err = "NotImplemented" THEN Err("TypeError: unsupported operand") ELSE r

(***************************************************************************)
(* CurrencyAmount construction.                                            *)
(***************************************************************************)
\* Currency.minimal_value: Decimal("1") / (10 ** precision)
minimal_value(c) == DecTruediv(DecimalOfInt(1, 0), DecimalOfInt(1, c.precision)).val[1]

\* the validator left out: the value is stored as given
quantize_amount_skipped(value, currency) == Ok(value)

\* validator("amount"): value.quantize(currency.minimal_value)
quantize_amount(value, currency) == Quantize(value, minimal_value(currency))

\* CurrencyAmount(amount=..., currency=...): the amount validator runs on every
\* construction
CurrencyAmount(amount, currency) ==
    LET q == quantize_amount(amount, currency)
    IN  IF IsOk(q) THEN Ok([currency |-> currency, amount |-> q.val[1]]) ELSE q

\* Currency.get_amount
get_amount(c, amount) == CurrencyAmount(ToDecimal(amount), c)

\* Currency.__mul__
Currency_mul(c, other) ==
    IF other.type \in {"int", "Decimal"}
    THEN CurrencyAmount(ToDecimal(other), c)
    ELSE NotImplemented

\* Currency.__rmul__ accepting a float as CurrencyFraction.__rmul__ does
Currency_rmul_float(c, other) ==
    IF other.type \in {"int", "float", "Decimal"}
    THEN CurrencyAmount(ToDecimal(other), c)
    ELSE NotImplemented

\* Currency.__rmul__
Currency_rmul(c, other) ==
    IF other.type \in {"int", "Decimal"}
    THEN CurrencyAmount(ToDecimal(other), c)
    ELSE NotImplemented

\* Currency.zero: 0 * self
zero(c) == Operator(Currency_rmul(c, IntOp(0, 0)))

\* Currency.one: 1 * self
one(c) == Operator(Currency_rmul(c, IntOp(1, 0)))

(***************************************************************************)
(* CurrencyFraction.                                                       *)
(***************************************************************************)
\* an unknown name falling back to the base fraction
get_fraction_defaulting(c, fraction_name) ==
    Ok([currency |-> c, name |-> fraction_name,
        multiplier |-> IF fraction_name \in DOMAIN FRACTIONS
                       THEN FRACTIONS[fraction_name] ELSE FRACTIONS["base"]])

\* Currency.get_fraction
get_fraction(c, fraction_name) ==
    IF fraction_name \notin DOMAIN FRACTIONS
    THEN Err("RuntimeError")
    ELSE Ok([currency |-> c, name |-> fraction_name,
             multiplier |-> FRACTIONS[fraction_name]])

\* CurrencyFraction.get_amount
CurrencyFraction_get_amount(f, amount) ==
    get_amount(f.currency,
               [type |-> "Decimal", val |-> DecMul(ToDecimal(amount), f.multiplier),
                amt |-> <<>>])

\* CurrencyFraction.__mul__
CurrencyFraction_mul(f, other) ==
    IF other.type \in {"int", "float", "Decimal"}
    THEN CurrencyFraction_get_amount(f, [type |-> "Decimal", val |-> ToDecimal(other),
                                         amt |-> <<>>])
    ELSE NotImplemented

\* CurrencyFraction.__rmul__
CurrencyFraction_rmul(f, other) ==
    IF other.type \in {"int", "float", "Decimal"}
    THEN CurrencyFraction_get_amount(f, [type |-> "Decimal", val |-> ToDecimal(other),
                                         amt |-> <<>>])
    ELSE NotImplemented

(***************************************************************************)
(* CurrencyAmount arithmetic.                                              *)
(***************************************************************************)
\* str(currency) is its code
DifferentCurrencies(a, b) ==
    [err |-> "TypeError: different currencies", val |-> <<>>,
     msg |-> <<"Amounts have different currencies: ">> \o a.currency.code
             \o <<" and ">> \o b.currency.code]

\* CurrencyAmount.__add__
CurrencyAmount_add(a, other) ==
    IF other.type = "CurrencyAmount"
    THEN (IF Currency_eq(a.currency, other.amt[1].currency)
          THEN CurrencyAmount(DecAdd(a.amount, other.amt[1].amount), a.currency)
          ELSE DifferentCurrencies(a, other.amt[1]))
    ELSE NotImplemented

\* CurrencyAmount.__sub__
CurrencyAmount_sub(a, other) ==
    IF other.type = "CurrencyAmount"
    THEN (IF Currency_eq(a.currency, other.amt[1].currency)
          THEN CurrencyAmount(DecSub(a.amount, other.amt[1].amount), a.currency)
          ELSE DifferentCurrencies(a, other.amt[1]))
    ELSE NotImplemented

\* CurrencyAmount.__mul__
CurrencyAmount_mul(a, other) ==
    IF other.type \in {"int", "Decimal"}
    THEN CurrencyAmount(DecMul(other.val, a.amount), a.currency)
    ELSE NotImplemented

\* CurrencyAmount.__truediv__
CurrencyAmount_truediv(a, other) ==
    IF other.type \in {"int", "Decimal"}
    THEN LET q == DecTruediv(a.amount, other.val)
         IN  IF IsOk(q) THEN CurrencyAmount(q.val[1], a.currency) ELSE q
    ELSE NotImplemented

\* CurrencyAmount.__floordiv__
CurrencyAmount_floordiv(a, other) ==
    IF other.type \in {"int", "Decimal"}
    THEN LET q == DecFloordiv(a.amount, other.val)
         IN  IF IsOk(q) THEN CurrencyAmount(q.val[1], a.currency) ELSE q
    ELSE NotImplemented

\* CurrencyAmount.from_fraction; amount is an int or a Decimal
from_fraction(amount, currency, fraction_name) ==
    LET fraction == get_fraction(currency, fraction_name)
    IN  IF ~IsOk(fraction) THEN fraction
        ELSE LET amount_base == Quantize(DecMul(amount.val, fraction.val[1].multiplier),
                                         minimal_value(currency))
             IN  IF IsOk(amount_base) THEN CurrencyAmount(amount_base.val[1], currency)
                 ELSE amount_base

\* CurrencyAmount.as_fraction
as_fraction(a, fraction_name) ==
    LET fraction == get_fraction(a.currency, fraction_name)
    IN  IF ~IsOk(fraction) THEN fraction
        ELSE DecTruediv(a.amount, fraction.val[1].multiplier)

(***************************************************************************)
(* A session over the value types: x is the amount the caller holds (none  *)
(* at first), last is the latest call with its operands and what it gave.  *)
(***************************************************************************)
USD == from_code(<<"U", "S", "D">>).val[1]

ETH == from_code(<<"E", "T", "H">>).val[1]

\* a Currency given by all its fields rather than by code: same code as the
\* registry's USD, two decimals
USD2 == Currency([code |-> <<"U", "S", "D">>, precision |-> 2, name |-> "US Dollar",
                  type |-> "FIAT", symbol |-> "$"]).val[1]

SessionCurrencies == {USD, ETH, USD2}

\* the currencies amounts are built in
AmountCurrencies == {USD, ETH}

\* int and Decimal values handed to get_amount
Values ==
    {IntOp(0, 0), IntOp(1, 0), IntOp(5, 0), IntOp(6, 9), IntOp(1, 10), IntOp(6, 19),
     DecOp(5, -9, -9), DecOp(15, -9, -9)}

\* values in fraction units handed to from_fraction and the fractions
FractionValues == {IntOp(1, 0), IntOp(1, 9), IntOp(1, 10), DecOp(15, -1, -1)}

\* operands of every type for the multiplication operators of Currency and
\* CurrencyFraction
TypedOperands ==
    {IntOp(2, 0), DecOp(5, -1, -1), FloatOp(5, -1, -1), OtherOp("str"), OtherOp("Currency"),
     AmountOp(get_amount(USD, IntOp(1, 0)).val[1])}

\* scalars and other operands of the arithmetic operators of CurrencyAmount
Scalars ==
    {IntOp(0, 0), DecOp(0, 0, 0), IntOp(2, 0), DecOp(5, -1, -1), FloatOp(5, -1, -1),
     OtherOp("str")}

FractionNames == DOMAIN FRACTIONS \cup {"mwei"}

\* amounts built beforehand, to stand on the right of + and -
InputAmounts ==
    {get_amount(USD, IntOp(1, 0)).val[1], get_amount(USD, IntOp(6, 19)).val[1],
     get_amount(ETH, IntOp(1, 0)).val[1], get_amount(ETH, IntOp(6, 9)).val[1],
     get_amount(USD2, IntOp(1, 0)).val[1]}

\* what can stand on the right of an operator: a scalar, a built amount, x itself
Operands ==
    Scalars \cup {AmountOp(a) : a \in InputAmounts} \cup {AmountOp(x[i]) : i \in 1..Len(x)}

\* two amounts whose digits lie further apart than this sum to a mantissa above
\* MaxMantissa
MaxSpan == NumDigits(MaxMantissa) + 1

InSpan(a, other) ==
    other.type = "CurrencyAmount" =>
        \/ a.amount.m = 0
        \/ other.amt[1].amount.m = 0
        \/ Abs(a.amount.p - other.amt[1].amount.p) <= MaxSpan

\* no call has raised: nothing here catches an exception, so the first one ends
\* the session
Running == last.res.err = "none"

\* record the call; a call that returns a CurrencyAmount leaves it in x
Step(op, cur, a, n, name, res, isAmount) ==
    /\ (isAmount /\ IsOk(res)) => Abs(res.val[1].amount.m) <= MaxMantissa
    /\ last' = [op |-> op, cur |-> cur, a |-> a, n |-> n, name |-> name, res |-> res]
    /\ x' = IF isAmount /\ IsOk(res) THEN res.val ELSE x
    /\ UNCHANGED <<elasticsearch_url, _client_cache, created, got>>

GetAmount ==
    /\ Running
    /\ \E c \in AmountCurrencies, v \in Values :
            Step("get_amount", <<c>>, <<>>, <<v>>, "", get_amount(c, v), TRUE)

\* currency * n
MulCurrency ==
    /\ Running
    /\ \E c \in AmountCurrencies, n \in TypedOperands :
            Step("Currency.__mul__", <<c>>, <<>>, <<n>>, "", Operator(Currency_mul(c, n)), TRUE)

\* n * currency
RmulCurrency ==
    /\ Running
    /\ \E c \in AmountCurrencies, n \in TypedOperands :
            Step("Currency.__rmul__", <<c>>, <<>>, <<n>>, "", Operator(Currency_rmul(c, n)), TRUE)

Zero ==
    /\ Running
    /\ \E c \in AmountCurrencies :
            Step("zero", <<c>>, <<>>, <<>>, "", zero(c), TRUE)

One ==
    /\ Running
    /\ \E c \in AmountCurrencies :
            Step("one", <<c>>, <<>>, <<>>, "", one(c), TRUE)

GetFraction ==
    /\ Running
    /\ \E c \in SessionCurrencies, name \in FractionNames :
            Step("get_fraction", <<c>>, <<>>, <<>>, name, get_fraction(c, name), FALSE)

FractionGetAmount ==
    /\ Running
    /\ \E c \in AmountCurrencies, name \in DOMAIN FRACTIONS, v \in FractionValues :
            Step("CurrencyFraction.get_amount", <<c>>, <<>>, <<v>>, name,
                 CurrencyFraction_get_amount(get_fraction(c, name).val[1], v), TRUE)

\* fraction * n
MulFraction ==
    /\ Running
    /\ \E c \in AmountCurrencies, name \in DOMAIN FRACTIONS, n \in TypedOperands :
            Step("CurrencyFraction.__mul__", <<c>>, <<>>, <<n>>, name,
                 Operator(CurrencyFraction_mul(get_fraction(c, name).val[1], n)), TRUE)

\* n * fraction
RmulFraction ==
    /\ Running
    /\ \E c \in AmountCurrencies, name \in DOMAIN FRACTIONS, n \in TypedOperands :
            Step("CurrencyFraction.__rmul__", <<c>>, <<>>, <<n>>, name,
                 Operator(CurrencyFraction_rmul(get_fraction(c, name).val[1], n)), TRUE)

FromFraction ==
    /\ Running
    /\ \E c \in AmountCurrencies, name \in FractionNames, v \in FractionValues :
            Step("from_fraction", <<c>>, <<>>, <<v>>, name, from_fraction(v, c, name), TRUE)

AsFraction ==
    /\ Running
    /\ x # <<>>
    /\ \E name \in FractionNames :
        Step("as_fraction", <<>>, x, <<>>, name, as_fraction(x[1], name), FALSE)

\* x + other
Add ==
    /\ Running
    /\ x # <<>>
    /\ \E other \in Operands :
        /\ InSpan(x[1], other)
        /\ Step("__add__", <<>>, x, <<other>>, "",
                Operator(CurrencyAmount_add(x[1], other)), TRUE)

\* x - other
Sub ==
    /\ Running
    /\ x # <<>>
    /\ \E other \in Operands :
        /\ InSpan(x[1], other)
        /\ Step("__sub__", <<>>, x, <<other>>, "",
                Operator(CurrencyAmount_sub(x[1], other)), TRUE)

\* x * other
Mul ==
    /\ Running
    /\ x # <<>>
    /\ \E other \in Operands :
        Step("__mul__", <<>>, x, <<other>>, "",
             Operator(CurrencyAmount_mul(x[1], other)), TRUE)

\* x / other
Truediv ==
    /\ Running
    /\ x # <<>>
    /\ \E other \in Operands :
        Step("__truediv__", <<>>, x, <<other>>, "",
             Operator(CurrencyAmount_truediv(x[1], other)), TRUE)

\* x // other
Floordiv ==
    /\ Running
    /\ x # <<>>
    /\ \E other \in Operands :
        Step("__floordiv__", <<>>, x, <<other>>, "",
             Operator(CurrencyAmount_floordiv(x[1], other)), TRUE)

NoCall == [op |-> "", cur |-> <<>>, a |-> <<>>, n |-> <<>>, name |-> "",
           res |-> [err |-> "none", val |-> <<>>, msg |-> <<>>]]

(***************************************************************************)
(* ElasticsearchFactory (es_factory.py).  A string is a sequence of its    *)
(* pieces, "/" a piece of its own.  created lists the Elasticsearch        *)
(* clients constructed so far, in order; a client is known by its place in *)
(* that list.  got is what the latest call returned.                       *)
(***************************************************************************)
DEFAULT_REQUEST_TIMEOUT == 60

ApiKeys == {"key-1", "key-2"}

\* the factory the session's process holds
SessionApiKey == "key-1"

MAINNET == [technology |-> <<"ethereum">>, blockchain |-> <<"ethereum">>,
            network |-> <<"mainnet">>, role |-> "MAINNET", title |-> "Ethereum Mainnet"]

\* the networks asked for: const.MAINNET, a second network under the same key, a
\* test network, and two whose parts differ while their keys agree
Networks ==
    {MAINNET,
     [MAINNET EXCEPT !.title = "Mainnet"],
     [technology |-> <<"ethereum">>, blockchain |-> <<"ethereum">>,
      network |-> <<"ropsten">>, role |-> "TESTNET", title |-> "Ropsten"],
     [technology |-> <<"poa">>, blockchain |-> <<"xdai">>,
      network |-> <<"main">>, role |-> "MAINNET", title |-> "xDai"],
     [technology |-> <<"a", "/", "b">>, blockchain |-> <<"c">>,
      network |-> <<"n">>, role |-> "TESTNET", title |-> "first"],
     [technology |-> <<"a">>, blockchain |-> <<"b", "/", "c">>,
      network |-> <<"n">>, role |-> "TESTNET", title |-> "second"]}

\* Network.key
key(network) ==
    network.technology \o <<"/">> \o network.blockchain \o <<"/">> \o network.network

RECURSIVE rstrip(_)
\* str.rstrip("/")
rstrip(s) ==
    IF s # <<>> /\ s[Len(s)] = "/" THEN rstrip(SubSeq(s, 1, Len(s) - 1)) ELSE s

\* ElasticsearchFactory.get_endpoint
get_endpoint(network) ==
    rstrip(elasticsearch_url) \o <<"/">> \o network.technology \o <<"/">>
    \o network.blockchain \o <<"/">> \o network.network \o <<"/", "es", "/">>

\* ElasticsearchFactory.__init__
FactoryInit(api) ==
    /\ elasticsearch_url =
           <<"https://tech%40anyblockanalytics.com:", api, "@api.anyblock.tools">>
    /\ _client_cache = <<>>
    /\ created = <<>>
    /\ got = <<>>

\* the client get_client(network) returns, after the call
Returned(via, network) ==
    [via |-> via, network |-> network, err |-> "none",
     client |-> <<_client_cache'[key(network)]>>]

\* get_client without the membership test: a client is constructed on every call
get_client_uncached(via, network) ==
    /\ created' = Append(created, [hosts |-> <<get_endpoint(network)>>,
                                    timeout |-> DEFAULT_REQUEST_TIMEOUT])
    /\ _client_cache' = [k \in DOMAIN _client_cache \cup {key(network)} |->
                             IF k = key(network) THEN Len(created) + 1
                             ELSE _client_cache[k]]
    /\ got' = <<Returned(via, network)>>

\* ElasticsearchFactory.get_client, called directly or through get_dsl_client
get_client(via, network) ==
    IF elasticsearch_url = <<>>
    THEN /\ got' = <<[via |-> via, network |-> network, err |-> "RuntimeError",
                      client |-> <<>>]>>
         /\ UNCHANGED <<_client_cache, created>>
    ELSE /\ IF key(network) \notin DOMAIN _client_cache
            THEN /\ created' = Append(created, [hosts |-> <<get_endpoint(network)>>,
                                                timeout |-> DEFAULT_REQUEST_TIMEOUT])
                 /\ _client_cache' = _client_cache @@ (key(network) :> Len(created) + 1)
            ELSE UNCHANGED <<_client_cache, created>>
         /\ got' = <<Returned(via, network)>>

GetClient ==
    /\ \E network \in Networks : get_client("get_client", network)
    /\ UNCHANGED <<x, last, elasticsearch_url>>

\* Search(using=self.get_client(network))
GetDslClient ==
    /\ \E network \in Networks : get_client("get_dsl_client", network)
    /\ UNCHANGED <<x, last, elasticsearch_url>>

NextFactory ==
    \/ GetClient
    \/ GetDslClient

(***************************************************************************)
(* Calls on the currency registry: lookups by code, and a Currency         *)
(* serialized and built again.                                             *)
(***************************************************************************)
CodeAlphabet == {"e", "E", "t", "T", "h", "H", "Z"}

RECURSIVE StringsUpTo(_)
StringsUpTo(n) ==
    IF n = 0 THEN {<<>>}
    ELSE StringsUpTo(n - 1) \cup
         {Append(s, ch) : s \in {t \in StringsUpTo(n - 1) : Len(t) = n - 1},
                          ch \in CodeAlphabet}

Call(op, cur, n, res) ==
    last' = [op |-> op, cur |-> cur, a |-> <<>>, n |-> n, name |-> "", res |-> res]

\* Currency.from_code(code)
FromCode ==
    /\ \E code \in StringsUpTo(MaxCodeLen) :
           Call("from_code", <<>>, <<code>>, from_code(code))
    /\ UNCHANGED <<x, elasticsearch_url, _client_cache, created, got>>

\* c.dict() for a currency of the registry
Serialize ==
    /\ \E c \in Registered :
           Call("dict", <<c>>, <<>>, Ok(dict(c)))
    /\ UNCHANGED <<x, elasticsearch_url, _client_cache, created, got>>

\* Currency(**values) for the mapping the latest dict() gave
Deserialize ==
    /\ last.op = "dict"
    /\ Call("Currency", last.cur, last.res.val, Currency(last.res.val[1]))
    /\ UNCHANGED <<x, elasticsearch_url, _client_cache, created, got>>

\* Currency(**values) for other mappings: a code alone that is not registered or
\* not in upper case, and all the fields
Construct ==
    /\ \E values \in {[code |-> <<"Z", "Z", "Z">>], [code |-> <<"e", "t", "h">>],
                      CURRENCIES[<<"E", "T", "H">>], CURRENCIES[<<"U", "S", "D">>],
                      [code |-> <<"U", "S", "D">>, precision |-> 2]} :
           Call("Currency", <<>>, <<values>>, Currency(values))
    /\ UNCHANGED <<x, elasticsearch_url, _client_cache, created, got>>

NextRegistry ==
    \/ FromCode
    \/ Serialize
    \/ Deserialize
    \/ Construct

Init ==
    /\ x = <<>>
    /\ last = NoCall
    /\ FactoryInit(SessionApiKey)

\* a factory for any of the API keys
InitFactory ==
    /\ x = <<>>
    /\ last = NoCall
    /\ \E api \in ApiKeys : FactoryInit(api)

Next ==
    \/ GetAmount
    \/ MulCurrency
    \/ RmulCurrency
    \/ Zero
    \/ One
    \/ GetFraction
    \/ FractionGetAmount
    \/ MulFraction
    \/ RmulFraction
    \/ FromFraction
    \/ AsFraction
    \/ Add
    \/ Sub
    \/ Mul
    \/ Truediv
    \/ Floordiv

Spec == Init /\ [][Next]_vars

SpecRegistry == Init /\ [][NextRegistry]_vars

SpecFactory == InitFactory /\ [][NextFactory]_vars

(***************************************************************************)
(* The properties.                                                         *)
(***************************************************************************)
AmountOps ==
    {"get_amount", "Currency.__mul__", "Currency.__rmul__", "zero", "one",
     "CurrencyFraction.get_amount", "CurrencyFraction.__mul__",
     "CurrencyFraction.__rmul__", "from_fraction", "__add__", "__sub__", "__mul__",
     "__truediv__", "__floordiv__"}

\* the amount stores at most precision fractional digits and is an integer multiple
\* of minimal_value
Quantized(a) ==
    /\ a.amount.e >= -a.currency.precision
    /\ a.amount.m = 0 \/ a.amount.p >= minimal_value(a.currency).p

\* C1: every CurrencyAmount an operation produces (get_amount, n * currency, zero,
\* one, the fractions' get_amount and *, from_fraction, and +, -, *, / and // on
\* amounts) holds at most currency.precision fractional digits, after any sequence
\* of such operations.
C1_AmountsQuantized ==
    /\ x # <<>> => Quantized(x[1])
    /\ (last.op \in AmountOps /\ IsOk(last.res)) =>
           /\ x = last.res.val
           /\ Quantized(last.res.val[1])

\* a quotient off the currency's grid was rounded onto it: a nonzero amount divided
\* to zero
C1_Witness ==
    /\ last.op = "__truediv__"
    /\ IsOk(last.res)
    /\ last.a[1].amount.m # 0
    /\ last.n[1].val.m = 2
    /\ x[1].amount.m = 0

\* C2: a + b and a - b fail with the currency-mismatch error naming both currencies
\* when the currencies differ in any stored field, and otherwise never fail and
\* give exactly the sum (the difference) in that currency.
C2_AddSub ==
    (last.op \in {"__add__", "__sub__"} /\ last.n[1].type = "CurrencyAmount") =>
        LET a == last.a[1]
            b == last.n[1].amt[1]
            exact == IF last.op = "__add__" THEN DecAdd(a.amount, b.amount)
                     ELSE DecSub(a.amount, b.amount)
        IN  IF a.currency # b.currency
            THEN /\ last.res.err = "TypeError: different currencies"
                 /\ last.res.val = <<>>
                 /\ last.res.msg = <<"Amounts have different currencies: ">>
                                   \o a.currency.code \o <<" and ">> \o b.currency.code
            ELSE /\ IsOk(last.res)
                 /\ last.res.val[1].currency = a.currency
                 /\ NumEq(last.res.val[1].amount, exact)

\* |d| <= bound, for a positive bound
AbsLeq(d, bound) ==
    \/ d.m = 0
    \/ LET nd == NumDigits(Abs(d.m))
           nb == NumDigits(bound.m)
       IN  \/ nd + d.p < nb + bound.p
           \/ /\ nd + d.p = nb + bound.p
              /\ Abs(d.m) * Pow10(nb - nd) <= bound.m * Pow10(nd - nb)

\* C4: from_fraction(v, c, n).as_fraction(n) gives v back: exactly when v * FRACTIONS[n]
\* has no more than c.precision fractional digits, and otherwise within one
\* minimal_value (in fraction units), for every currency, fraction name and value.
C4_RoundTrip ==
    (last.op = "from_fraction" /\ last.name \in DOMAIN FRACTIONS) =>
        /\ IsOk(last.res)
        /\ LET c == last.cur[1]
               v == last.n[1].val
               base == DecMul(v, FRACTIONS[last.name])
               back == as_fraction(last.res.val[1], last.name)
           IN  /\ IsOk(back)
               /\ (base.m = 0 \/ base.p >= -c.precision) => NumEq(back.val[1], v)
               /\ AbsLeq(DecSub(DecMul(back.val[1], FRACTIONS[last.name]), base),
                         minimal_value(c))

\* C5: get_amount(x) never fails for an int or a finite Decimal x: it returns the
\* amount of x rounded to currency.precision fractional digits, in that currency.
C5_GetAmountTotal ==
    last.op = "get_amount" =>
        /\ IsOk(last.res)
        /\ last.res.val[1].currency = last.cur[1]
        /\ last.res.val[1].amount = Rescale(last.n[1].val, -last.cur[1].precision)

\* C6: a / s and a // s with s zero (int or Decimal) fail with the division-by-zero
\* error and produce no amount, for every a, a zero amount included.
C6_DivisionByZero ==
    (/\ last.op \in {"__truediv__", "__floordiv__"}
     /\ last.n[1].type \in {"int", "Decimal"}
     /\ last.n[1].val.m = 0) =>
        /\ last.res.err = "DivisionByZero"
        /\ last.res.val = <<>>

\* C7: get_fraction(name) succeeds exactly for the keys of FRACTIONS, giving the
\* fraction of that currency with multiplier FRACTIONS[name] whatever the currency;
\* an unknown name fails as not known, from from_fraction and as_fraction too.
C7_Fractions ==
    /\ last.op = "get_fraction" =>
           IF last.name \in DOMAIN FRACTIONS
           THEN /\ IsOk(last.res)
                /\ last.res.val[1] = [currency |-> last.cur[1], name |-> last.name,
                                      multiplier |-> FRACTIONS[last.name]]
           ELSE /\ last.res.err = "RuntimeError"
                /\ last.res.val = <<>>
    /\ (last.op \in {"from_fraction", "as_fraction"}
        /\ last.name \notin DOMAIN FRACTIONS) =>
           /\ last.res.err = "RuntimeError"
           /\ last.res.val = <<>>

\* an amount asked for in a fraction that is not registered
C7_Witness ==
    /\ last.op = "as_fraction"
    /\ last.name = "mwei"
    /\ last.a # <<>>
    /\ last.res.err = "RuntimeError"

MulOps ==
    {"Currency.__mul__", "Currency.__rmul__", "CurrencyFraction.__mul__",
     "CurrencyFraction.__rmul__"}

\* x.get_amount(n), x the Currency or the CurrencyFraction the latest call multiplied
GetAmountOfLast ==
    IF last.op \in {"Currency.__mul__", "Currency.__rmul__"}
    THEN get_amount(last.cur[1], last.n[1])
    ELSE CurrencyFraction_get_amount(get_fraction(last.cur[1], last.name).val[1],
                                      last.n[1])

\* C9 as stated: n * x and x * n accept int and Decimal operands only, for a
\* Currency x as for a CurrencyFraction x; every other operand type is an
\* unsupported operand; an accepted n gives x.get_amount(n).
C9_Mirror ==
    last.op \in MulOps =>
        IF last.n[1].type \in {"int", "Decimal"}
        THEN last.res = GetAmountOfLast
        ELSE /\ last.res.err = "TypeError: unsupported operand"
             /\ last.res.val = <<>>

\* the operand types x * n and n * x accept
Accepted(op) ==
    IF op \in {"Currency.__mul__", "Currency.__rmul__"}
    THEN {"int", "Decimal"}
    ELSE {"int", "float", "Decimal"}

\* C9 amended: a Currency accepts int and Decimal operands, a CurrencyFraction int,
\* float and Decimal operands; every other operand type is an unsupported
\* operand; an accepted n gives what x.get_amount(n) gives.
C9_Amended ==
    last.op \in MulOps =>
        IF last.n[1].type \in Accepted(last.op)
        THEN last.res = GetAmountOfLast
        ELSE /\ last.res.err = "TypeError: unsupported operand"
             /\ last.res.val = <<>>

\* a float times a fraction gave an amount
C9_Witness ==
    /\ last.op = "CurrencyFraction.__rmul__"
    /\ last.n[1].type = "float"
    /\ IsOk(last.res)
    /\ x = last.res.val

\* C3: for every currency c of the registry, Currency(**c.dict()) equals c on every
\* stored field, c.dict() holding the code alone.
C3_SerializeRoundTrip ==
    (last.op = "Currency" /\ last.cur # <<>>) =>
        /\ DOMAIN last.n[1] = {"code"}
        /\ last.n[1].code = last.cur[1].code
        /\ IsOk(last.res)
        /\ last.res.val[1] = last.cur[1]

\* an ethereum-like currency, which has no symbol, came back from its code
C3_Witness ==
    /\ last.op = "Currency"
    /\ last.cur = <<ETH>>
    /\ IsOk(last.res)
    /\ last.res.val[1].precision = 18
    /\ last.res.val[1].symbol = None

\* C8: from_code(s) returns the registry's Currency for upper(s) when that is a
\* registered code, whatever the case of s, and fails as an unknown code otherwise.
C8_Lookup ==
    last.op = "from_code" =>
        LET k == upper(last.n[1])
        IN  IF k \in DOMAIN CURRENCIES
            THEN /\ IsOk(last.res)
                 /\ last.res.val[1].code = k
                 /\ last.res.val[1].precision = CURRENCIES[k].precision
                 /\ last.res.val[1].name = CURRENCIES[k].name
                 /\ last.res.val[1].type = CURRENCIES[k].type
                 /\ last.res.val[1] \in Registered
            ELSE /\ last.res.err = "KeyError"
                 /\ last.res.val = <<>>

\* a code in mixed case was found
C8_Witness ==
    /\ last.op = "from_code"
    /\ last.n[1] = <<"e", "T", "h">>
    /\ IsOk(last.res)
    /\ last.res.val[1].code = <<"E", "T", "H">>

\* the cache holds one client per key, each client is the one constructed for its
\* key's endpoint, and the latest call returned the cached client of its key
CacheInv ==
    /\ Cardinality(DOMAIN _client_cache) = Len(created)
    /\ \A k \in DOMAIN _client_cache : _client_cache[k] \in 1..Len(created)
    /\ \A j, k \in DOMAIN _client_cache : _client_cache[j] = _client_cache[k] => j = k
    /\ got # <<>> =>
           /\ got[1].err = "none"
           /\ key(got[1].network) \in DOMAIN _client_cache
           /\ got[1].client = <<_client_cache[key(got[1].network)]>>
           /\ created[got[1].client[1]] =
                  [hosts |-> <<get_endpoint(got[1].network)>>,
                   timeout |-> DEFAULT_REQUEST_TIMEOUT]

\* a call constructs a client only for a key the cache does not hold yet, returns
\* the cached one otherwise, and leaves every entry as it was
CacheStep ==
    LET k == key(got'[1].network)
    IN  /\ \A j \in DOMAIN _client_cache :
               j \in DOMAIN _client_cache' /\ _client_cache'[j] = _client_cache[j]
        /\ IF k \in DOMAIN _client_cache
           THEN /\ created' = created
                /\ _client_cache' = _client_cache
                /\ got'[1].client = <<_client_cache[k]>>
           ELSE /\ created' = Append(created, created'[Len(created')])
                /\ DOMAIN _client_cache' = DOMAIN _client_cache \cup {k}
                /\ _client_cache'[k] = Len(created')

\* C10: the client cache is keyed by network.key and create-once: one client per
\* distinct key requested, constructed on the first request for the key's
\* endpoint, returned again on every later request, never replaced or removed.
C10_CreateOnce == []CacheInv /\ [][CacheStep]_vars

\* after two clients were constructed, a request returned the first of them again
C10_Witness ==
    /\ Len(created) >= 2
    /\ got # <<>>
    /\ got[1].client = <<1>>
    /\ got[1].via = "get_dsl_client"

====
